---- MODULE Spec2Model ----
(***************************************************************************)
(* Model of report_scripts.py: one run of analyze_day_performance over a   *)
(* CSV table, and the messages it hands to send_to_slack.                  *)
(*                                                                         *)
(* Strings that the code inspects (shift codes, reporting shifts, driver   *)
(* names) are sequences of one-character strings, so that split, replace,  *)
(* substring tests, int() and the lexicographic order of sorted() are      *)
(* computed character by character.  Idle times are integers in            *)
(* thousandths; means, shares and impacts are exact fractions              *)
(* [num, den] with den > 0.                                                *)
(***************************************************************************)
EXTENDS Integers, Sequences, FiniteSets, TLC

VARIABLES
    SLACK_WEBHOOK_URL,       \* os.environ.get("WEBHOOK_URL") at import
    csv,                     \* the rows of the CSV file
    pc,                      \* position inside analyze_day_performance
    activity_on_target_day,  \* filtered rows, with the derived columns
    overnight_skipped,       \* the except branch of the overnight rule ran
    sorted_shifts,
    message_parts,           \* title, site average and summary box
    all_shift_reports,       \* one block per reporting shift
    split_index,
    error,                   \* the exception caught at the top level
    calls,                   \* messages handed to send_to_slack, in order
    posts,                   \* messages POSTed to the webhook, in order
    last_response,           \* outcome of the latest POST
    warnings,                \* number of "not set, skipping" warnings
    outcome                  \* "running", "returned" or "raised"

vars == <<SLACK_WEBHOOK_URL, csv, pc, activity_on_target_day, overnight_skipped,
          sorted_shifts, message_parts, all_shift_reports, split_index, error,
          calls, posts, last_response, warnings, outcome>>

-----------------------------------------------------------------------------
(* Bounds of the model *)

MaxRows == 3
MaxAggRows == 2

-----------------------------------------------------------------------------
(* Configuration constants, in thousandths where they are idle times *)

LATE_SHIFT_START_HOUR == 20
BENCHMARK_IDLE_TIME == 680
OvernightHourLimit == 5
SplitBefore == 600
ImpactVeryBad == 20000
ImpactBad == 10000
ImpactFine == 0
SiteVeryBad == 1350
SiteBad == 1000
SiteFine == 680
TopN == 5
TargetDay == 1

-----------------------------------------------------------------------------
(* Strings *)

Digits == <<"0", "1", "2", "3", "4", "5", "6", "7", "8", "9">>

IsDigit(c) == \E i \in 1..10 : Digits[i] = c

DigitValue(c) == (CHOOSE i \in 1..10 : Digits[i] = c) - 1

\* Unicode code point of the characters the model uses.
CodePoint(c) ==
    CASE c = " " -> 32
      [] c = "(" -> 40
      [] c = ")" -> 41
      [] c = "-" -> 45
      [] IsDigit(c) -> 48 + DigitValue(c)
      [] c = "A" -> 65
      [] c = "B" -> 66
      [] c = "D" -> 68
      [] c = "O" -> 79
      [] c = "S" -> 83
      [] c = "Y" -> 89
      [] c = "_" -> 95
      [] c = "e" -> 101
      [] c = "g" -> 103
      [] c = "h" -> 104
      [] c = "i" -> 105
      [] c = "n" -> 110
      [] c = "r" -> 114
      [] c = "t" -> 116
      [] c = "v" -> 118

\* Python's str < str: lexicographic by code point, a proper prefix is less.
RECURSIVE StrLess(_, _)
StrLess(a, b) ==
    IF b = <<>> THEN FALSE
    ELSE IF a = <<>> THEN TRUE
    ELSE IF a[1] = b[1] THEN StrLess(Tail(a), Tail(b))
    ELSE CodePoint(a[1]) < CodePoint(b[1])

\* sub in s
Contains(s, sub) ==
    \E i \in 1..(Len(s) - Len(sub) + 1) : SubSeq(s, i, i + Len(sub) - 1) = sub

\* s.replace(sub, ''), sub not empty
RECURSIVE RemoveAll(_, _)
RemoveAll(s, sub) ==
    IF Len(s) < Len(sub) THEN s
    ELSE IF SubSeq(s, 1, Len(sub)) = sub
         THEN RemoveAll(SubSeq(s, Len(sub) + 1, Len(s)), sub)
         ELSE <<s[1]>> \o RemoveAll(Tail(s), sub)

\* s.split(sep)[-1]: the text after the last sep, all of s when there is none
SplitLast(s, sep) ==
    LET at == {i \in 1..Len(s) : s[i] = sep}
    IN  IF at = {} THEN s
        ELSE SubSeq(s, (CHOOSE i \in at : \A j \in at : j <= i) + 1, Len(s))

\* s.split(sep)[0]: the text before the first sep, all of s when there is none
SplitFirst(s, sep) ==
    LET at == {i \in 1..Len(s) : s[i] = sep}
    IN  IF at = {} THEN s
        ELSE SubSeq(s, 1, (CHOOSE i \in at : \A j \in at : i <= j) - 1)

\* The text is a non-empty run of decimal digits.
IsNumeric(s) == Len(s) > 0 /\ \A i \in 1..Len(s) : IsDigit(s[i])

RECURSIVE DecimalValue(_)
DecimalValue(s) ==
    IF s = <<>> THEN 0
    ELSE 10 * DecimalValue(SubSeq(s, 1, Len(s) - 1)) + DigitValue(s[Len(s)])

OVERNIGHT_TAG == <<"(", "O", "v", "e", "r", "n", "i", "g", "h", "t", ")">>
OVERNIGHT_SUFFIX == <<" ">> \o OVERNIGHT_TAG

\* A blank CSV cell, read by pandas as NaN.
NaN == <<"NaN">>

-----------------------------------------------------------------------------
(* Sequences *)

RECURSIVE SumSeq(_)
SumSeq(s) == IF s = <<>> THEN 0 ELSE s[1] + SumSeq(Tail(s))

RECURSIVE SelectIdx(_, _, _)
\* the elements of s at the indices in keep, in order
SelectIdx(s, keep, i) ==
    IF i > Len(s) THEN <<>>
    ELSE (IF i \in keep THEN <<s[i]>> ELSE <<>>) \o SelectIdx(s, keep, i + 1)

Range(s) == {s[i] : i \in 1..Len(s)}

\* Series.unique(): the distinct values in order of first appearance
RECURSIVE Unique(_)
Unique(s) ==
    IF s = <<>> THEN <<>>
    ELSE LET front == Unique(SubSeq(s, 1, Len(s) - 1))
         IN  IF s[Len(s)] \in Range(front) THEN front
             ELSE Append(front, s[Len(s)])

\* sorted(): stable and ascending; less[i][j] says that s[i] compares below s[j]
SortedBy(s, less) ==
    LET rank(i) == Cardinality({j \in 1..Len(s) :
                        less[j][i] \/ (~less[i][j] /\ j < i)}) + 1
    IN  [k \in 1..Len(s) |-> s[CHOOSE i \in 1..Len(s) : rank(i) = k]]

-----------------------------------------------------------------------------
(* Fractions *)

Frac(n, d) == [num |-> n, den |-> d]

FracGE(f, k) == f.num >= k * f.den
FracGT(f, k) == f.num > k * f.den
FracLess(f, g) == f.num * g.den < g.num * f.den

-----------------------------------------------------------------------------
(* Helper functions for formatting *)

get_impact_emoji_strict(idle_impact) ==
    IF FracGT(idle_impact, ImpactVeryBad) THEN "RED"
    ELSE IF FracGT(idle_impact, ImpactBad) THEN "ORANGE"
    ELSE IF FracGT(idle_impact, ImpactFine) THEN "YELLOW"
    ELSE "GREEN"

\* RED is Very Bad, ORANGE is Bad, YELLOW is Fine, GREEN is Great.
get_impact_emoji(idle_impact) ==
    IF FracGE(idle_impact, ImpactVeryBad) THEN "RED"
    ELSE IF FracGE(idle_impact, ImpactBad) THEN "ORANGE"
    ELSE IF FracGE(idle_impact, ImpactFine) THEN "YELLOW"
    ELSE "GREEN"

get_site_average_emoji(site_average) ==
    IF FracGT(site_average, SiteVeryBad) THEN "RED"
    ELSE IF FracGT(site_average, SiteBad) THEN "ORANGE"
    ELSE IF FracGE(site_average, SiteFine) THEN "YELLOW"
    ELSE "GREEN"

-----------------------------------------------------------------------------
(* Steps 3 and 4: cleaning the shift codes, filtering the target day *)

CleanedShift(shift_code) == SplitLast(shift_code, "-")

FilterTargetDay(rows) ==
    LET keep == {i \in 1..Len(rows) : rows[i].date = TargetDay}
        kept == SelectIdx(rows, keep, 1)
    IN  [i \in 1..Len(kept) |->
            [hour |-> kept[i].hour,
             cleaned_shift |-> CleanedShift(kept[i].shift_code),
             reporting_shift |-> CleanedShift(kept[i].shift_code),
             driver |-> kept[i].driver,
             idle_time |-> kept[i].idle_time]]

-----------------------------------------------------------------------------
(* The overnight rule *)

\* pd.to_numeric raises when any value of the column is not a number.
ToNumericRaises(rows) ==
    \E i \in 1..Len(rows) : ~IsNumeric(rows[i].cleaned_shift)

overnight_condition(row) ==
    /\ row.hour < OvernightHourLimit
    /\ DecimalValue(row.cleaned_shift) >= LATE_SHIFT_START_HOUR * 100

ApplyOvernight(rows) ==
    IF ToNumericRaises(rows) THEN rows
    ELSE [i \in 1..Len(rows) |->
            IF overnight_condition(rows[i])
            THEN [rows[i] EXCEPT !.reporting_shift =
                                    rows[i].cleaned_shift \o OVERNIGHT_SUFFIX]
            ELSE rows[i]]

-----------------------------------------------------------------------------
(* The order of the shifts *)

shift_sort_key_unprefixed(shift_name) == <<"1", "_">> \o shift_name

shift_sort_key(shift_name) ==
    IF Contains(shift_name, OVERNIGHT_TAG)
    THEN <<"0", "_">> \o shift_name
    ELSE <<"1", "_">> \o shift_name

ShiftKeyLess(a, b) == StrLess(shift_sort_key(a), shift_sort_key(b))

SortShifts(rows) ==
    LET all_shifts_in_report == Unique([i \in 1..Len(rows) |-> rows[i].reporting_shift])
        n == Len(all_shifts_in_report)
    IN  SortedBy(all_shifts_in_report,
                 [i \in 1..n |-> [j \in 1..n |->
                    ShiftKeyLess(all_shifts_in_report[i], all_shifts_in_report[j])]])

-----------------------------------------------------------------------------
(* The head of the message *)

IdleGreater(a, b) == a.idle_time > b.idle_time

\* nlargest(5, idle time): descending, the earlier row first among equals
Top5(rows) ==
    LET desc == SortedBy(rows, [i \in 1..Len(rows) |-> [j \in 1..Len(rows) |->
                                    IdleGreater(rows[i], rows[j])]])
        n == IF Len(desc) < TopN THEN Len(desc) ELSE TopN
    IN  [i \in 1..n |-> [driver |-> desc[i].driver,
                         idle_time |-> desc[i].idle_time,
                         hour |-> desc[i].hour]]

IdleTimes(rows) == [i \in 1..Len(rows) |-> rows[i].idle_time]

BuildMessageParts(rows) ==
    LET total == SumSeq(IdleTimes(rows))
        site_average == Frac(total, Len(rows))
    IN  [site_average |-> site_average,
         site_status |-> get_site_average_emoji(site_average),
         difference |-> Frac(total - BENCHMARK_IDLE_TIME * Len(rows), Len(rows)),
         top_5 |-> Top5(rows)]

-----------------------------------------------------------------------------
(* The table of one shift *)

NameLess(a, b) == StrLess(a, b)
ImpactLess(a, b) == FracLess(a.idle_impact, b.idle_impact)

ShiftActivity(rows, shift_name) ==
    SelectIdx(rows, {i \in 1..Len(rows) : rows[i].reporting_shift = shift_name}, 1)

\* groupby(Driver): one group per driver in ascending order; rows whose
\* driver is NaN belong to no group.
GroupKeys(shift_activity) ==
    LET named == SelectIdx(shift_activity,
                    {i \in 1..Len(shift_activity) : shift_activity[i].driver # NaN}, 1)
        drivers == Unique([i \in 1..Len(named) |-> named[i].driver])
    IN  SortedBy(drivers, [i \in 1..Len(drivers) |-> [j \in 1..Len(drivers) |->
                              NameLess(drivers[i], drivers[j])]])

DriverRow(shift_activity, driver, total_daily_moves) ==
    LET mine == SelectIdx(shift_activity,
                    {i \in 1..Len(shift_activity) : shift_activity[i].driver = driver}, 1)
        count == Len(mine)
        total == SumSeq(IdleTimes(mine))
        impact == Frac((total - BENCHMARK_IDLE_TIME * count) * count, count)
    IN  [status |-> get_impact_emoji(impact),
         driver |-> driver,
         avg_idle_time |-> Frac(total, count),
         move_count |-> count,
         pct_of_moves |-> Frac(count, total_daily_moves),
         idle_impact |-> impact]

ShiftSummary(rows, shift_name) ==
    LET shift_activity == ShiftActivity(rows, shift_name)
        keys == GroupKeys(shift_activity)
        unsorted == [i \in 1..Len(keys) |->
                        DriverRow(shift_activity, keys[i], Len(rows))]
    IN  SortedBy(unsorted, [i \in 1..Len(keys) |-> [j \in 1..Len(keys) |->
                              ImpactLess(unsorted[i], unsorted[j])]])

FormattedShift(shift_name) ==
    LET display_shift == RemoveAll(shift_name, OVERNIGHT_SUFFIX)
        cut == IF Len(display_shift) < 2 THEN Len(display_shift) ELSE 2
    IN  SubSeq(display_shift, 1, cut) \o <<":">>
            \o SubSeq(display_shift, cut + 1, Len(display_shift))

ShiftReport(rows, shift_name) ==
    LET shift_summary == ShiftSummary(rows, shift_name)
    IN  [shift_name |-> shift_name,
         formatted_shift |-> FormattedShift(shift_name),
         from_previous_day |-> Contains(shift_name, OVERNIGHT_TAG),
         no_employee_data |-> shift_summary = <<>>,
         table |-> shift_summary]

AllShiftReports(rows, shifts) ==
    [i \in 1..Len(shifts) |-> ShiftReport(rows, shifts[i])]

-----------------------------------------------------------------------------
(* The split point and the messages *)

\* int(text) raises ValueError unless the text is a number.
StartsBeforeSplit(shift_name) ==
    LET cleaned_shift == SplitFirst(shift_name, " ")
    IN  IsNumeric(cleaned_shift) /\ DecimalValue(cleaned_shift) < SplitBefore

\* The index, counted from 0, of the last shift that starts before 6 AM; -1
\* when there is none.
FindSplitIndex(shifts) ==
    LET hits == {i \in 1..Len(shifts) : StartsBeforeSplit(shifts[i])}
    IN  IF hits = {} THEN -1
        ELSE (CHOOSE i \in hits : \A j \in hits : j <= i) - 1

Message(kind, detail, head, shifts) ==
    [kind |-> kind, detail |-> detail, head |-> head, shifts |-> shifts]

NoDataMessage == Message("no_data", "none", <<>>, <<>>)
ErrorMessage(e) == Message("error", e, <<>>, <<>>)

SingleMessage == split_index = -1 \/ split_index = Len(all_shift_reports) - 1

final_message == Message("report", "none", <<message_parts>>, all_shift_reports)

final_message_1 ==
    Message("report", "none", <<message_parts>>,
            SubSeq(all_shift_reports, 1, split_index + 1))

final_message_2_from_split ==
    Message("continued", "none", <<>>,
            SubSeq(all_shift_reports, split_index + 1, Len(all_shift_reports)))

final_message_2 ==
    Message("continued", "none", <<>>,
            SubSeq(all_shift_reports, split_index + 2, Len(all_shift_reports)))

-----------------------------------------------------------------------------
(* Inputs *)

Str_S0500 == <<"S", "-", "0", "5", "0", "0">>
Str_S1400 == <<"S", "-", "1", "4", "0", "0">>
Str_S2200 == <<"S", "-", "2", "2", "0", "0">>
Str_SDAY == <<"S", "-", "D", "A", "Y">>
Str_S0600 == <<"S", "-", "0", "6", "0", "0">>
Str_2000 == <<"2", "0", "0", "0">>

Row(date, hour, shift_code, driver, idle_time) ==
    [date |-> date, hour |-> hour, shift_code |-> shift_code,
     driver |-> driver, idle_time |-> idle_time]

\* Rows for the classification, the order of the shifts and the split.
ShiftRows ==
    {Row(TargetDay - 1, 23, Str_S2200, <<"A">>, 680)}
    \cup {Row(TargetDay, h, c, <<"A">>, 680) :
            h \in {2, 14}, c \in {Str_S0500, Str_S1400, Str_S2200, Str_SDAY}}
    \cup {Row(TargetDay, 14, Str_S0600, <<"A">>, 680),
          Row(TargetDay, 2, Str_2000, <<"A">>, 680)}

\* Rows for the per-driver aggregation and the status of each row.
AggRows ==
    {Row(TargetDay, 14, c, d, t) :
        c \in {Str_S0500, Str_S1400},
        d \in {<<"A">>, <<"B">>, NaN},
        t \in {670, 680, 10679, 10680}}

SeqsUpTo(S, n) == UNION {[1..k -> S] : k \in 0..n}

\* None, the placeholder text, or a URL
WebhookValues == {"None", "YOUR_NEW_SLACK_APP_WEBHOOK_URL_HERE", "https://hooks"}

InitWith(tables) ==
    /\ SLACK_WEBHOOK_URL \in WebhookValues
    /\ csv \in tables
    /\ pc = "load"
    /\ activity_on_target_day = <<>>
    /\ overnight_skipped = FALSE
    /\ sorted_shifts = <<>>
    /\ message_parts = <<>>
    /\ all_shift_reports = <<>>
    /\ split_index = -1
    /\ error = "none"
    /\ calls = <<>>
    /\ posts = <<>>
    /\ last_response = "none"
    /\ warnings = 0
    /\ outcome = "running"

Init == InitWith(SeqsUpTo(ShiftRows, MaxRows))
InitAgg == InitWith(SeqsUpTo(AggRows, MaxAggRows))

-----------------------------------------------------------------------------
(* analyze_day_performance, step by step *)

\* Steps 1 to 4 succeed.
Load ==
    /\ pc = "load"
    /\ activity_on_target_day' = FilterTargetDay(csv)
    /\ pc' = IF activity_on_target_day' = <<>> THEN "no_data" ELSE "classify"
    /\ UNCHANGED <<SLACK_WEBHOOK_URL, csv, overnight_skipped, sorted_shifts,
                   message_parts, all_shift_reports, split_index, error, calls,
                   posts, last_response, warnings, outcome>>

\* read_csv, to_datetime or a column lookup raises.
LoadRaises ==
    /\ pc = "load"
    /\ error' = "LoadError"
    /\ pc' = "except"
    /\ UNCHANGED <<SLACK_WEBHOOK_URL, csv, activity_on_target_day,
                   overnight_skipped, sorted_shifts, message_parts,
                   all_shift_reports, split_index, calls, posts, last_response,
                   warnings, outcome>>

\* The overnight rule inside its own try, then the sorted list of shifts.
Classify ==
    /\ pc = "classify"
    /\ activity_on_target_day' = ApplyOvernight(activity_on_target_day)
    /\ overnight_skipped' = ToNumericRaises(activity_on_target_day)
    /\ sorted_shifts' = SortShifts(activity_on_target_day')
    /\ pc' = "build"
    /\ UNCHANGED <<SLACK_WEBHOOK_URL, csv, message_parts, all_shift_reports,
                   split_index, error, calls, posts, last_response, warnings,
                   outcome>>

\* The head, one block per shift, and the split point.
Build ==
    /\ pc = "build"
    /\ message_parts' = BuildMessageParts(activity_on_target_day)
    /\ all_shift_reports' = AllShiftReports(activity_on_target_day, sorted_shifts)
    /\ split_index' = FindSplitIndex(sorted_shifts)
    /\ pc' = "send_1"
    /\ UNCHANGED <<SLACK_WEBHOOK_URL, csv, activity_on_target_day,
                   overnight_skipped, sorted_shifts, error, calls, posts,
                   last_response, warnings, outcome>>

\* time.sleep(1) between the two messages
Sleep ==
    /\ pc = "sleep"
    /\ pc' = "send_2"
    /\ UNCHANGED <<SLACK_WEBHOOK_URL, csv, activity_on_target_day,
                   overnight_skipped, sorted_shifts, message_parts,
                   all_shift_reports, split_index, error, calls, posts,
                   last_response, warnings, outcome>>

-----------------------------------------------------------------------------
(* send_to_slack, called from four places *)

SendPositions == {"no_data", "send_1", "send_2", "except"}

MessageAt(position) ==
    CASE position = "no_data" -> NoDataMessage
      [] position = "send_1" -> IF SingleMessage THEN final_message
                                ELSE final_message_1
      [] position = "send_2" -> final_message_2
      [] position = "except" -> ErrorMessage(error)

\* Where the run continues when send_to_slack returns.
AfterSend(position) ==
    IF position = "send_1" /\ ~SingleMessage THEN "sleep" ELSE "done"

\* The URL is None: the substring test raises TypeError.  Inside the try the
\* handler catches it; inside the handler it leaves analyze_day_performance.
SendRaisesTypeError ==
    /\ pc \in SendPositions
    /\ SLACK_WEBHOOK_URL = "None"
    /\ calls' = Append(calls, MessageAt(pc))
    /\ error' = IF pc = "except" THEN error ELSE "TypeError"
    /\ pc' = IF pc = "except" THEN "done" ELSE "except"
    /\ outcome' = IF pc = "except" THEN "raised" ELSE outcome
    /\ UNCHANGED <<SLACK_WEBHOOK_URL, csv, activity_on_target_day,
                   overnight_skipped, sorted_shifts, message_parts,
                   all_shift_reports, split_index, posts, last_response,
                   warnings>>

\* The URL holds the placeholder: a warning, no POST.
SendSkipped ==
    /\ pc \in SendPositions
    /\ SLACK_WEBHOOK_URL = "YOUR_NEW_SLACK_APP_WEBHOOK_URL_HERE"
    /\ calls' = Append(calls, MessageAt(pc))
    /\ warnings' = warnings + 1
    /\ pc' = AfterSend(pc)
    /\ outcome' = IF pc' = "done" THEN "returned" ELSE outcome
    /\ UNCHANGED <<SLACK_WEBHOOK_URL, csv, activity_on_target_day,
                   overnight_skipped, sorted_shifts, message_parts,
                   all_shift_reports, split_index, error, posts, last_response>>

\* requests.post: status 200, another status, or a RequestException; each is
\* printed and send_to_slack returns.
SendPosted ==
    /\ pc \in SendPositions
    /\ SLACK_WEBHOOK_URL \notin {"None", "YOUR_NEW_SLACK_APP_WEBHOOK_URL_HERE"}
    /\ \E response \in {"200", "500", "RequestException"} :
            last_response' = response
    /\ calls' = Append(calls, MessageAt(pc))
    /\ posts' = Append(posts, MessageAt(pc))
    /\ pc' = AfterSend(pc)
    /\ outcome' = IF pc' = "done" THEN "returned" ELSE outcome
    /\ UNCHANGED <<SLACK_WEBHOOK_URL, csv, activity_on_target_day,
                   overnight_skipped, sorted_shifts, message_parts,
                   all_shift_reports, split_index, error, warnings>>

Next ==
    \/ Load
    \/ LoadRaises
    \/ Classify
    \/ Build
    \/ Sleep
    \/ SendRaisesTypeError
    \/ SendSkipped
    \/ SendPosted

Spec == Init /\ [][Next]_vars
SpecAgg == InitAgg /\ [][Next]_vars

-----------------------------------------------------------------------------
(* Vocabulary of the properties *)

\* The overnight rule has run on the rows of the day.
Classified == sorted_shifts # <<>>

\* The blocks of the report exist.
Built == all_shift_reports # <<>>

\* The run got past the load with rows of the target day, and has ended.
ReportRunEnded == pc = "done" /\ Classified

EndsWithOvernightSuffix(label) ==
    /\ Len(label) >= Len(OVERNIGHT_SUFFIX)
    /\ SubSeq(label, Len(label) - Len(OVERNIGHT_SUFFIX) + 1, Len(label))
          = OVERNIGHT_SUFFIX

\* The label the overnight rule gives a row whose code is a number.
RuleLabel(row) ==
    IF row.hour < 5 /\ DecimalValue(row.cleaned_shift) >= 2000
    THEN row.cleaned_shift \o OVERNIGHT_SUFFIX
    ELSE row.cleaned_shift

NumericBelow600(code) == IsNumeric(code) /\ DecimalValue(code) < 600

ShiftNames(blocks) == [i \in 1..Len(blocks) |-> blocks[i].shift_name]

RowsOfShift(shift_name) ==
    {i \in 1..Len(activity_on_target_day) :
        activity_on_target_day[i].reporting_shift = shift_name}

MoveCounts(table) == [i \in 1..Len(table) |-> table[i].move_count]

\* 1-based position of the last shift whose numeric prefix is below 600, 0
\* when there is none.
LastEarlyShift ==
    LET hits == {i \in 1..Len(sorted_shifts) :
                    NumericBelow600(SplitFirst(sorted_shifts[i], " "))}
    IN  IF hits = {} THEN 0 ELSE CHOOSE i \in hits : \A j \in hits : j <= i

-----------------------------------------------------------------------------
(* Properties *)

\* C1: once the day is classified, every row whose cleaned code is a number
\* has the label cleaned code + " (Overnight)" exactly when its hour is
\* below 5 and the code is at least 2000, and the cleaned code otherwise.
C1_OvernightRule ==
    Classified =>
        \A i \in 1..Len(activity_on_target_day) :
            LET row == activity_on_target_day[i]
            IN  IsNumeric(row.cleaned_shift) =>
                    row.reporting_shift = RuleLabel(row)

\* C2: when some row of the day has a code that is not a number, that row
\* keeps its cleaned code as label and every row with a numeric code is
\* still labelled by the overnight rule.
C2_SkipOnlyUnparsableRow ==
    (Classified /\ overnight_skipped) =>
        \A i \in 1..Len(activity_on_target_day) :
            LET row == activity_on_target_day[i]
            IN  IF IsNumeric(row.cleaned_shift)
                THEN row.reporting_shift = RuleLabel(row)
                ELSE row.reporting_shift = row.cleaned_shift

\* C3: a run that built a report has sent, when it ends, exactly one message
\* with the head and every block in sorted order if no shift has a numeric
\* prefix below 600 or the last such shift is the last block, and otherwise
\* exactly two: the head with the blocks up to the last such shift, then the
\* continuation with the blocks after it.
C3_SplitMessages ==
    ReportRunEnded =>
        /\ ShiftNames(all_shift_reports) = sorted_shifts
        /\ IF LastEarlyShift = 0 \/ LastEarlyShift = Len(all_shift_reports)
           THEN calls = <<Message("report", "none", <<message_parts>>,
                                  all_shift_reports)>>
           ELSE calls = <<Message("report", "none", <<message_parts>>,
                                  SubSeq(all_shift_reports, 1, LastEarlyShift)),
                          Message("continued", "none", <<>>,
                                  SubSeq(all_shift_reports, LastEarlyShift + 1,
                                         Len(all_shift_reports)))>>

\* C4: with the webhook variable unset or holding the placeholder, every call
\* of send_to_slack is skipped with a warning: nothing is POSTed, no exception
\* is raised, and the run ends by returning.
C4_UnsetOrPlaceholderSkips ==
    SLACK_WEBHOOK_URL \in {"None", "YOUR_NEW_SLACK_APP_WEBHOOK_URL_HERE"} =>
        /\ posts = <<>>
        /\ warnings = Len(calls)
        /\ error # "TypeError"
        /\ outcome # "raised"

\* C5: a run whose table has no row of the target day ends by returning,
\* having sent the "no data" notice and nothing else.
C5_NoDataNotice ==
    (pc = "done" /\ error # "LoadError" /\ FilterTargetDay(csv) = <<>>) =>
        /\ calls = <<NoDataMessage>>
        /\ outcome = "returned"

\* C6: no exception leaves analyze_day_performance; an error caught at the
\* top level is followed by an error notice; after a load error no report
\* message is sent.
C6_NothingPropagates ==
    /\ outcome # "raised"
    /\ (pc = "done" /\ error # "none") =>
            (calls # <<>> /\ calls[Len(calls)] = ErrorMessage(error))
    /\ error = "LoadError" =>
            \A i \in 1..Len(calls) : calls[i].kind \notin {"report", "continued"}

\* C7: in every block of the report the move counts of the drivers add up to
\* the number of rows of the day with that reporting shift, and over all
\* blocks to the number of rows of the day.
C7_MoveCountsAddUp ==
    Built =>
        /\ \A b \in 1..Len(all_shift_reports) :
              SumSeq(MoveCounts(all_shift_reports[b].table))
                  = Cardinality(RowsOfShift(all_shift_reports[b].shift_name))
        /\ SumSeq([b \in 1..Len(all_shift_reports) |->
                      SumSeq(MoveCounts(all_shift_reports[b].table))])
              = Len(activity_on_target_day)

\* C8: on every driver row of the report the idle impact is (average idle
\* time - 0.68) * move count, and the status is Very Bad (RED) exactly for an
\* impact of 20 or more, Bad (ORANGE) from 10 up to 20, Fine (YELLOW) from 0
\* up to 10, Great (GREEN) below 0.  Values are in thousandths.
C8_StatusBoundaries ==
    \A b \in 1..Len(all_shift_reports) :
        \A r \in 1..Len(all_shift_reports[b].table) :
            LET row == all_shift_reports[b].table[r]
                avg == row.avg_idle_time
                x == row.idle_impact
            IN  /\ x.den > 0 /\ avg.den > 0
                /\ x.num * avg.den
                      = (avg.num - 680 * avg.den) * row.move_count * x.den
                /\ row.status = "RED" <=> x.num >= 20000 * x.den
                /\ row.status = "ORANGE" <=>
                      (10000 * x.den <= x.num /\ x.num < 20000 * x.den)
                /\ row.status = "YELLOW" <=>
                      (0 <= x.num /\ x.num < 10000 * x.den)
                /\ row.status = "GREEN" <=> x.num < 0

\* A driver row with an impact of exactly 20.0, shown as Very Bad, next to
\* the rows of another block.
C8_Witness ==
    /\ Len(all_shift_reports) >= 1
    /\ \E b \in 1..Len(all_shift_reports) :
          \E r \in 1..Len(all_shift_reports[b].table) :
              LET row == all_shift_reports[b].table[r]
              IN  /\ row.idle_impact.num = 20000 * row.idle_impact.den
                  /\ row.move_count = 2
                  /\ row.status = "RED"

\* C9: in sorted_shifts every distinct reporting shift of the day appears
\* exactly once, every shift labelled "(Overnight)" comes before every other
\* shift, and inside each of the two groups the labels ascend.
C9_ShiftOrder ==
    Classified =>
        /\ Range(sorted_shifts)
              = {activity_on_target_day[i].reporting_shift :
                    i \in 1..Len(activity_on_target_day)}
        /\ Cardinality(Range(sorted_shifts)) = Len(sorted_shifts)
        /\ \A i, j \in 1..Len(sorted_shifts) :
              i < j =>
                LET a == sorted_shifts[i]
                    b == sorted_shifts[j]
                IN  /\ EndsWithOvernightSuffix(b) => EndsWithOvernightSuffix(a)
                    /\ (EndsWithOvernightSuffix(a) <=> EndsWithOvernightSuffix(b))
                          => StrLess(a, b)

\* An overnight shift ahead of two same-day shifts.
C9_Witness ==
    /\ Len(sorted_shifts) >= 3
    /\ EndsWithOvernightSuffix(sorted_shifts[1])
    /\ ~EndsWithOvernightSuffix(sorted_shifts[2])
    /\ ~EndsWithOvernightSuffix(sorted_shifts[3])

\* A row is reclassified overnight, or its numeric code is below 600.
EarlyRow(row) ==
    \/ row.reporting_shift # row.cleaned_shift
    \/ NumericBelow600(row.cleaned_shift)

\* C10: when a continuation message is sent, the message before it is the
\* report's first message and holds the block of every overnight shift and
\* of every shift with a numeric code below 600; the continuation holds at
\* least one block and none of those.
C10_EarlyShiftsInFirstMessage ==
    \A k \in 1..Len(calls) :
        calls[k].kind = "continued" =>
            /\ k > 1
            /\ calls[k - 1].kind = "report"
            /\ calls[k].shifts # <<>>
            /\ \A i \in 1..Len(activity_on_target_day) :
                  LET row == activity_on_target_day[i]
                  IN  IF EarlyRow(row)
                      THEN /\ row.reporting_shift
                                \in Range(ShiftNames(calls[k - 1].shifts))
                           /\ row.reporting_shift
                                \notin Range(ShiftNames(calls[k].shifts))
                      ELSE TRUE

\* Two messages were sent, the first with an overnight block and a block of
\* a shift before 6 AM.
C10_Witness ==
    /\ Len(calls) = 2
    /\ calls[2].kind = "continued"
    /\ \E i, j \in 1..Len(calls[1].shifts) :
          /\ calls[1].shifts[i].from_previous_day
          /\ NumericBelow600(calls[1].shifts[j].shift_name)

====
